---- MODULE Spec2Model ----
(***************************************************************************)
(* A model of the A/B testing core of synthscribe (src/ab_testing.py):     *)
(* Variant metrics, the ABTestingManager store with its deterministic      *)
(* assignment, and the write-through persistence to experiments.json.      *)
(*                                                                         *)
(* Conventions                                                             *)
(*  - a Python float that is the quotient of two integers is modelled as   *)
(*    the reduced fraction [num, den]; two such floats are equal exactly   *)
(*    when the fractions are (the integers of the model are small).        *)
(*  - datetime values are ticks of the clock `now`; isoformat() wraps a    *)
(*    tick into [iso |-> t] and fromisoformat() unwraps it.                *)
(*  - the dict self.experiments is a sequence of [key, exp] pairs in       *)
(*    insertion order (Python dicts keep it, and json.dump writes in it).  *)
(*  - Spec, SpecSig and SpecLoad have one caller and one store, held in    *)
(*    `experiments`, and each call is one step; SpecConc has two threads   *)
(*    on one or two store instances, held in `stores`, and a call is the   *)
(*    sequence of its reads and writes of shared state.                    *)
(***************************************************************************)
EXTENDS Integers, Sequences, FiniteSets, TLC

VARIABLES
    experiments,   \* ABTestingManager.experiments of the live store instance
    file,          \* parsed content of <storage_dir>/experiments.json, or NoFile
    now,           \* the clock read by datetime.now()
    result,        \* outcome of the last call made on the store
    returned,      \* the first answer of get_user_variant, kept by the caller
    calls,         \* number of calls made so far (constructions included)
    stores,        \* the store instances of the processes that share the file
    threads        \* the threads calling them: position and local variables

vars == <<experiments, file, now, result, returned, calls, stores, threads>>

----------------------------------------------------------------------------
(* Bounds of the model *)

MaxCalls == 4      \* number of calls made on the store
MaxTime == 1       \* last tick of the clock
MaxImpressions == 4   \* impressions of a variant handed to is_significant

(* Inputs of the calls *)

Names == {"e1", "e2"}
Subjects == {"user_1", "user_2"}
VariantNames == {"a", "b"}
Scores == {2, 5}

VSpec(n) == [name |-> n, description |-> "", config |-> n]

VariantSpecs ==
    { <<>>,
      <<VSpec("a"), VSpec("b")>>,
      <<VSpec("a"), VSpec("a")>> }

\* the (name, variants) arguments of create_experiment
CreateInputs ==
    ({"e1"} \X VariantSpecs) \cup {<<"e2", <<VSpec("a"), VSpec("b")>>>>}

----------------------------------------------------------------------------
(* Numbers *)

RECURSIVE GCD(_, _)
GCD(a, b) == IF b = 0 THEN a ELSE GCD(b, a % b)

\* the float a / b (b > 0, a >= 0)
Div(a, b) == LET g == GCD(a, b) IN [num |-> a \div g, den |-> b \div g]

Zero == [num |-> 0, den |-> 1]

----------------------------------------------------------------------------
(* ExperimentStatus *)

ExperimentStatus == {"ACTIVE", "PAUSED", "COMPLETED", "ARCHIVED"}

\* a save that writes the member's name where the value is meant
StatusValue_Name(st) == st

\* status.value
StatusValue(st) ==
    CASE st = "ACTIVE" -> "active"
      [] st = "PAUSED" -> "paused"
      [] st = "COMPLETED" -> "completed"
      [] st = "ARCHIVED" -> "archived"

StatusValues == {"active", "paused", "completed", "archived"}

\* ExperimentStatus(value): the member with that value (value in StatusValues)
StatusOfValue(val) ==
    CASE val = "active" -> "ACTIVE"
      [] val = "paused" -> "PAUSED"
      [] val = "completed" -> "COMPLETED"
      [] val = "archived" -> "ARCHIVED"

----------------------------------------------------------------------------
(* Variant *)

DefaultMetrics ==
    [impressions |-> 0, successes |-> 0, conversion_rate |-> Zero,
     avg_feedback_score |-> Zero, total_feedback_score |-> 0,
     feedback_count |-> 0]

Variant(n, d, c) ==
    [name |-> n, description |-> d, config |-> c, metrics |-> DefaultMetrics]

Variant_update_conversion_rate(v) ==
    IF v.metrics.impressions > 0
    THEN [v EXCEPT !.metrics.conversion_rate =
                       Div(v.metrics.successes, v.metrics.impressions)]
    ELSE v

\* an impression that starts the success count over
Variant_record_impression_Reset(v) ==
    Variant_update_conversion_rate(
        [v EXCEPT !.metrics.impressions = @ + 1, !.metrics.successes = 0])

Variant_record_impression(v) ==
    Variant_update_conversion_rate(
        [v EXCEPT !.metrics.impressions = @ + 1])

\* a success that leaves the conversion rate stale
Variant_record_success_Stale(v) == [v EXCEPT !.metrics.successes = @ + 1]

Variant_record_success(v) ==
    Variant_update_conversion_rate(
        [v EXCEPT !.metrics.successes = @ + 1])

\* a feedback whose average divides by the count before the increment
Variant_record_feedback_StaleCount(v, score) ==
    LET total == v.metrics.total_feedback_score + score
        count == v.metrics.feedback_count + 1
    IN [v EXCEPT !.metrics.total_feedback_score = total,
                 !.metrics.feedback_count = count,
                 !.metrics.avg_feedback_score =
                     IF count = 1 THEN Div(total, 1) ELSE Div(total, count - 1)]

Variant_record_feedback(v, score) ==
    LET total == v.metrics.total_feedback_score + score
        count == v.metrics.feedback_count + 1
    IN [v EXCEPT !.metrics.total_feedback_score = total,
                 !.metrics.feedback_count = count,
                 !.metrics.avg_feedback_score = Div(total, count)]

----------------------------------------------------------------------------
(* Experiment *)

DefaultMinSampleSize == 100
DefaultConfidenceLevel == 95     \* 0.95, in hundredths

Experiment(n, d, vs, st, created, updated, mss, cl) ==
    [name |-> n, description |-> d, variants |-> vs, status |-> st,
     created_at |-> created, updated_at |-> updated,
     min_sample_size |-> mss, confidence_level |-> cl]

get_variant_names(exp) == [i \in DOMAIN exp.variants |-> exp.variants[i].name]

\* a lookup that falls back to the first variant
get_variant_OrFirst(exp, vname) ==
    IF \E i \in DOMAIN exp.variants : exp.variants[i].name = vname
    THEN CHOOSE i \in DOMAIN exp.variants :
            /\ exp.variants[i].name = vname
            /\ \A j \in DOMAIN exp.variants :
                  exp.variants[j].name = vname => i <= j
    ELSE IF Len(exp.variants) > 0 THEN 1 ELSE 0

\* index of the first variant with that name, 0 when there is none
get_variant(exp, vname) ==
    IF \E i \in DOMAIN exp.variants : exp.variants[i].name = vname
    THEN CHOOSE i \in DOMAIN exp.variants :
            /\ exp.variants[i].name = vname
            /\ \A j \in DOMAIN exp.variants :
                  exp.variants[j].name = vname => i <= j
    ELSE 0

----------------------------------------------------------------------------
(* Experiment.is_significant: the two-proportion z-test *)

FracLess(a, b) == a.num * b.den < b.num * a.den

\* (p1 - p2) squared
DiffSquared(p1, p2) ==
    LET d == p1.num * p2.den - p2.num * p1.den
        m == p1.den * p2.den
    IN Div(d * d, m * m)

\* a / b for b > 0
FracDiv(a, b) ==
    LET g1 == GCD(a.num, b.num)
        g2 == GCD(a.den, b.den)
    IN Div((a.num \div g1) * (b.den \div g2), (a.den \div g2) * (b.num \div g1))

\* The p-value 2 * (1 - normal_cdf(|z|)) is carried as the square of z, of
\* which it is a strictly decreasing function; it is 1.0 exactly when z = 0.
PValue(z2) == [z_squared |-> z2]
PValueOne == PValue(Zero)

\* p_value < 1 - confidence_level, for |z| > 1.95996... at 0.95 (1.64485... at
\* 0.90, 2.57583... at 0.99): the squares of these, in 1/10000
CriticalZSquared(cl) ==
    CASE cl = 90 -> Div(27056, 10000)
      [] cl = 95 -> Div(38415, 10000)
      [] cl = 99 -> Div(66349, 10000)

BelowAlpha(p_value, cl) == FracLess(CriticalZSquared(cl), p_value.z_squared)

NoWinner == [present |-> FALSE, name |-> ""]
WinnerNamed(n) == [present |-> TRUE, name |-> n]

\* the tuple (is_significant, winner, p_value) that is_significant returns
Verdict(sig, winner, p_value) ==
    [kind |-> "value", is_significant |-> sig, winner |-> winner,
     p_value |-> p_value, error |-> ""]

\* is_significant raises
VerdictRaise(error) ==
    [kind |-> "raise", is_significant |-> FALSE, winner |-> NoWinner,
     p_value |-> PValueOne, error |-> error]

NotSignificant == Verdict(FALSE, NoWinner, PValueOne)

\* a test that takes the first two of two or more variants
HasTwoVariants_AtLeast(exp) == Len(exp.variants) >= 2

HasTwoVariants(exp) == Len(exp.variants) = 2

\* a guard that wants only one of the two samples to be large enough
SampleTooSmall_Both(v1, v2, mss) ==
    v1.metrics.impressions < mss /\ v2.metrics.impressions < mss

\* a guard that wants more than min_sample_size impressions
SampleTooSmall_Inclusive(v1, v2, mss) ==
    v1.metrics.impressions <= mss \/ v2.metrics.impressions <= mss

SampleTooSmall(v1, v2, mss) ==
    v1.metrics.impressions < mss \/ v2.metrics.impressions < mss

\* a check of the standard error that never finds it zero
ZeroStandardError_Never(successes, n) == FALSE

\* se == 0: the pooled proportion successes / n is 0 or 1
ZeroStandardError(successes, n) == successes * (n - successes) = 0

\* a winner picked the wrong way round
Winner_Swapped(v1, v2) ==
    IF FracLess(v2.metrics.conversion_rate, v1.metrics.conversion_rate)
    THEN WinnerNamed(v2.name) ELSE WinnerNamed(v1.name)

\* v1.name if p1 > p2 else v2.name
Winner(v1, v2) ==
    IF FracLess(v2.metrics.conversion_rate, v1.metrics.conversion_rate)
    THEN WinnerNamed(v1.name) ELSE WinnerNamed(v2.name)

is_significant(exp) ==
    IF ~HasTwoVariants(exp) THEN NotSignificant
    ELSE
    LET v1 == exp.variants[1]
        v2 == exp.variants[2]
        p1 == v1.metrics.conversion_rate
        p2 == v2.metrics.conversion_rate
        n1 == v1.metrics.impressions
        n2 == v2.metrics.impressions
        successes == v1.metrics.successes + v2.metrics.successes
    IN IF SampleTooSmall(v1, v2, exp.min_sample_size) THEN NotSignificant
       ELSE IF n1 + n2 = 0 \/ n1 = 0 \/ n2 = 0
       THEN VerdictRaise("ZeroDivisionError")
       ELSE IF successes * (n1 + n2 - successes) < 0
       THEN VerdictRaise("ValueError")
       ELSE IF ZeroStandardError(successes, n1 + n2) THEN NotSignificant
       ELSE IF successes * (n1 + n2 - successes) = 0
       THEN VerdictRaise("ZeroDivisionError")
       ELSE
       LET se_squared == Div(successes * (n1 + n2 - successes),
                             (n1 + n2) * n1 * n2)
           p_value == PValue(FracDiv(DiffSquared(p1, p2), se_squared))
           significant == BelowAlpha(p_value, exp.confidence_level)
       IN Verdict(significant,
                  IF significant THEN Winner(v1, v2) ELSE NoWinner,
                  p_value)

----------------------------------------------------------------------------
(* The dict self.experiments *)

Keys(exps) == {exps[i].key : i \in DOMAIN exps}

IndexOf(exps, n) == CHOOSE i \in DOMAIN exps : exps[i].key = n

Lookup(exps, n) == exps[IndexOf(exps, n)].exp

\* exps[n] = exp : an existing key keeps its position
\* a store that stamps every experiment it holds with the time of the one put
Put_StampAll(exps, n, exp) ==
    LET stamped == [i \in DOMAIN exps |->
                       [exps[i] EXCEPT !.exp.updated_at = exp.updated_at]]
    IN IF n \in Keys(exps)
       THEN [stamped EXCEPT ![IndexOf(exps, n)].exp = exp]
       ELSE Append(stamped, [key |-> n, exp |-> exp])

Put(exps, n, exp) ==
    IF n \in Keys(exps)
    THEN [exps EXCEPT ![IndexOf(exps, n)].exp = exp]
    ELSE Append(exps, [key |-> n, exp |-> exp])

----------------------------------------------------------------------------
(* Persistence *)

\* the file: whether it exists, whether json.load gets a dict out of it, and
\* the list of its entries in file order
NoFile == [exists |-> FALSE, parses |-> FALSE, data |-> <<>>]
FileOf(data) == [exists |-> TRUE, parses |-> TRUE, data |-> data]
UnparsableFile == [exists |-> TRUE, parses |-> FALSE, data |-> <<>>]

IsoFormat(t) == [iso |-> t]
FromIsoFormat(x) == x.iso

SaveEntry(exp) ==
    [name |-> exp.name,
     description |-> exp.description,
     status |-> StatusValue(exp.status),
     created_at |-> IsoFormat(exp.created_at),
     updated_at |-> IsoFormat(exp.updated_at),
     min_sample_size |-> exp.min_sample_size,
     confidence_level |-> exp.confidence_level,
     variants |-> [i \in DOMAIN exp.variants |->
                     [name |-> exp.variants[i].name,
                      description |-> exp.variants[i].description,
                      config |-> exp.variants[i].config,
                      metrics |-> exp.variants[i].metrics]]]

\* the file written by _save_experiments
SaveExperiments(exps) ==
    FileOf([i \in DOMAIN exps |->
               [key |-> exps[i].key, data |-> SaveEntry(exps[i].exp)]])

\* d.get(key, default)
GetOr(d, key, default) == IF key \in DOMAIN d THEN d[key] ELSE default

LoadEntry(d) ==
    Experiment(d.name, d.description,
               [i \in DOMAIN d.variants |->
                   [name |-> d.variants[i].name,
                    description |-> d.variants[i].description,
                    config |-> d.variants[i].config,
                    metrics |-> d.variants[i].metrics]],
               StatusOfValue(d.status),
               FromIsoFormat(d.created_at), FromIsoFormat(d.updated_at),
               GetOr(d, "min_sample_size", DefaultMinSampleSize),
               GetOr(d, "confidence_level", DefaultConfidenceLevel))

EntryKeys ==
    {"variants", "name", "description", "status", "created_at", "updated_at"}

VariantKeys == {"name", "description", "config", "metrics"}

\* an entry the loop body of _load_experiments gets through without raising:
\* no KeyError, and a status that ExperimentStatus knows
EntryLoads(d) ==
    /\ EntryKeys \subseteq DOMAIN d
    /\ \A i \in DOMAIN d.variants : VariantKeys \subseteq DOMAIN d.variants[i]
    /\ d.status \in StatusValues

\* the dict after the first k entries of the file have been processed; the
\* first entry that raises ends the loop, what was stored before it stays
RECURSIVE LoadFrom(_, _, _)
LoadFrom(f, k, acc) ==
    IF k > Len(f) THEN acc
    ELSE IF ~EntryLoads(f[k].data) THEN acc
    ELSE LoadFrom(f, k + 1, Put(acc, f[k].key, LoadEntry(f[k].data)))

\* self.experiments of a store constructed on the storage location
LoadExperiments(f) ==
    IF ~f.exists THEN <<>>
    ELSE IF ~f.parses THEN <<>>
    ELSE LoadFrom(f.data, 1, <<>>)

----------------------------------------------------------------------------
(* Assignment hash *)

\* int(md5("<experiment_name>:<user_id>").hexdigest(), 16) modulo 60; a
\* variant list of up to 6 variants has a length that divides 60, so
\* digest % len(variants) is the value the program computes
MD5Mod60 ==
    [p \in Names \X Subjects |->
        CASE p = <<"e1", "user_1">> -> 49
          [] p = <<"e1", "user_2">> -> 26
          [] p = <<"e2", "user_1">> -> 3
          [] p = <<"e2", "user_2">> -> 36]

\* a hash that is salted with the time of the call
Digest_Salted(e, s) == (MD5Mod60[<<e, s>>] + now) % 60

Digest(e, s) == MD5Mod60[<<e, s>>]

----------------------------------------------------------------------------
(* Bookkeeping of the calls *)

\* op, name: the call and its experiment_name argument;
\* kind: "ok" (returned), "none" (returned None or {}), "value" (returned
\* value), "raise" (raised the exception named by value), "report" (returned
\* the one element of report); again: the call repeats the one whose answer
\* is kept in `returned`, or completes an experiment that is COMPLETED
Result(op, n, kind, value, again) ==
    [op |-> op, name |-> n, kind |-> kind, value |-> value, again |-> again,
     report |-> <<>>]

ResultReport(op, n, report) ==
    [op |-> op, name |-> n, kind |-> "report", value |-> "", again |-> FALSE,
     report |-> <<report>>]

NotReturned ==
    [seen |-> FALSE, experiment |-> "", user |-> "", variants |-> <<>>,
     name |-> ""]

Returned(n, s, names, vname) ==
    [seen |-> TRUE, experiment |-> n, user |-> s, variants |-> names,
     name |-> vname]

\* no thread is running and there is no store but `experiments`
NoStores == <<>>
NoThreads == <<>>

\* one more call is made, by the one caller there is
Call ==
    /\ calls < MaxCalls
    /\ calls' = calls + 1
    /\ UNCHANGED <<stores, threads>>

----------------------------------------------------------------------------
(* ABTestingManager *)

Init ==
    /\ experiments = <<>>
    /\ file = NoFile
    /\ now = 0
    /\ result = Result("init", "", "ok", "", FALSE)
    /\ returned = NotReturned
    /\ calls = 0
    /\ stores = NoStores
    /\ threads = NoThreads

\* time passes between two calls
Tick ==
    /\ now < MaxTime
    /\ now' = now + 1
    /\ result' = Result("tick", "", "ok", "", FALSE)
    /\ UNCHANGED <<experiments, file, returned, calls, stores, threads>>

\* a new process constructs its store on the same storage location
Reload ==
    /\ Call
    /\ experiments' = LoadExperiments(file)
    /\ result' = Result("reload", "", "ok", "", FALSE)
    /\ UNCHANGED <<file, now, returned>>

create_experiment(n, specs) ==
    /\ Call
    /\ LET variant_objects ==
               [i \in DOMAIN specs |->
                   Variant(specs[i].name, specs[i].description,
                           specs[i].config)]
           experiment ==
               Experiment(n, "", variant_objects, "ACTIVE", now, now,
                          DefaultMinSampleSize, DefaultConfidenceLevel)
       IN /\ experiments' = Put(experiments, n, experiment)
          /\ file' = SaveExperiments(experiments')
    /\ result' = Result("create_experiment", n, "ok", n, FALSE)
    /\ UNCHANGED <<now, returned>>

\* an assignment that does not look at the status
IsAssignable_AnyStatus(n) == n \in Keys(experiments)

\* an assignment that is refused to PAUSED experiments only
IsAssignable_UnlessPaused(n) ==
    /\ n \in Keys(experiments)
    /\ Lookup(experiments, n).status # "PAUSED"

\* the experiment is in the store and ACTIVE
IsAssignable(n) ==
    /\ n \in Keys(experiments)
    /\ Lookup(experiments, n).status = "ACTIVE"

get_user_variant(n, s) ==
    /\ Call
    /\ IF ~IsAssignable(n)
       THEN /\ result' = Result("get_user_variant", n, "none", "", FALSE)
            /\ UNCHANGED <<experiments, file, now, returned>>
       ELSE LET experiment == Lookup(experiments, n) IN
            IF Len(experiment.variants) = 0
            THEN /\ result' = Result("get_user_variant", n, "raise",
                                     "ZeroDivisionError", FALSE)
                 /\ UNCHANGED <<experiments, file, now, returned>>
            ELSE LET variant_index == Digest(n, s) % Len(experiment.variants)
                     variant == experiment.variants[variant_index + 1]
                     names == get_variant_names(experiment)
                 IN /\ experiments' =
                          Put(experiments, n,
                              [experiment EXCEPT !.variants[variant_index + 1] =
                                   Variant_record_impression(variant)])
                    /\ file' = SaveExperiments(experiments')
                    /\ result' = Result("get_user_variant", n, "value",
                                        variant.name,
                                        /\ returned.seen
                                        /\ returned.experiment = n
                                        /\ returned.user = s
                                        /\ returned.variants = names)
                    /\ returned' = IF returned.seen THEN returned
                                    ELSE Returned(n, s, names, variant.name)
                    /\ UNCHANGED now

record_success(n, vname) ==
    /\ Call
    /\ IF n \notin Keys(experiments)
       THEN /\ result' = Result("record_success", n, "none", "", FALSE)
            /\ UNCHANGED <<experiments, file, now, returned>>
       ELSE LET experiment == Lookup(experiments, n)
                i == get_variant(experiment, vname)
            IN IF i = 0
               THEN /\ result' = Result("record_success", n, "none", "", FALSE)
                    /\ UNCHANGED <<experiments, file, now, returned>>
               ELSE /\ experiments' =
                          Put(experiments, n,
                              [experiment EXCEPT
                                  !.variants[i] = Variant_record_success(@),
                                  !.updated_at = now])
                    /\ file' = SaveExperiments(experiments')
                    /\ result' = Result("record_success", n, "ok", "", FALSE)
                    /\ UNCHANGED <<now, returned>>

record_feedback(n, vname, score) ==
    /\ Call
    /\ IF n \notin Keys(experiments)
       THEN /\ result' = Result("record_feedback", n, "none", "", FALSE)
            /\ UNCHANGED <<experiments, file, now, returned>>
       ELSE LET experiment == Lookup(experiments, n)
                i == get_variant(experiment, vname)
            IN IF i = 0
               THEN /\ result' = Result("record_feedback", n, "none", "", FALSE)
                    /\ UNCHANGED <<experiments, file, now, returned>>
               ELSE /\ experiments' =
                          Put(experiments, n,
                              [experiment EXCEPT
                                  !.variants[i] = Variant_record_feedback(@, score),
                                  !.updated_at = now])
                    /\ file' = SaveExperiments(experiments')
                    /\ result' = Result("record_feedback", n, "ok", "", FALSE)
                    /\ UNCHANGED <<now, returned>>

Completed_FreshVariants(exp, t) ==
    [exp EXCEPT !.status = "COMPLETED", !.updated_at = t,
                !.variants = [i \in DOMAIN exp.variants |->
                                 Variant(exp.variants[i].name,
                                         exp.variants[i].description,
                                         exp.variants[i].config)]]

\* a completion that archives
Completed_Archived(exp, t) == [exp EXCEPT !.status = "ARCHIVED", !.updated_at = t]

\* the two assignments of complete_experiment
Completed(exp, t) == [exp EXCEPT !.status = "COMPLETED", !.updated_at = t]

complete_experiment(n) ==
    /\ Call
    /\ IF n \notin Keys(experiments)
       THEN /\ result' = Result("complete_experiment", n, "none", "", FALSE)
            /\ UNCHANGED <<experiments, file, now, returned>>
       ELSE /\ experiments' =
                  Put(experiments, n, Completed(Lookup(experiments, n), now))
            /\ file' = SaveExperiments(experiments')
            /\ result' = Result("complete_experiment", n, "ok", "",
                             Lookup(experiments, n).status = "COMPLETED")
            /\ UNCHANGED <<now, returned>>

\* the dict object that experiment n holds as `field` of its i-th variant
Ref(n, i, field) == [ref |-> <<n, i, field>>]

\* what is read through such a reference when the store is exps
Deref(exps, r) == Lookup(exps, r.ref[1]).variants[r.ref[2]][r.ref[3]]

\* the dict built by get_experiment_results: status and timestamps are
\* values, the metrics and config of a variant are the variant's own dicts
Report(exp, verdict) ==
    [name |-> exp.name,
     status |-> StatusValue(exp.status),
     created_at |-> IsoFormat(exp.created_at),
     updated_at |-> IsoFormat(exp.updated_at),
     variants |-> [i \in DOMAIN exp.variants |->
                     [name |-> exp.variants[i].name,
                      metrics |-> Ref(exp.name, i, "metrics"),
                      config |-> Ref(exp.name, i, "config")]],
     statistical_significance |->
         [is_significant |-> verdict.is_significant,
          winner |-> verdict.winner,
          p_value |-> verdict.p_value,
          confidence_level |-> exp.confidence_level]]

EmptyReport_KeyError(n) ==
    Result("get_experiment_results", n, "raise", "KeyError", FALSE)

\* the {} that get_experiment_results returns for a name it does not know
EmptyReport(n) == Result("get_experiment_results", n, "none", "", FALSE)

get_experiment_results(n) ==
    /\ Call
    /\ IF n \notin Keys(experiments)
       THEN result' = EmptyReport(n)
       ELSE LET experiment == Lookup(experiments, n)
                verdict == is_significant(experiment)
            IN IF verdict.kind = "raise"
               THEN result' = Result("get_experiment_results", n, "raise",
                                     verdict.error, FALSE)
               ELSE result' = ResultReport("get_experiment_results", n,
                                           Report(experiment, verdict))
    /\ UNCHANGED <<experiments, file, now, returned>>

Next ==
    \/ Tick
    \/ Reload
    \/ \E c \in CreateInputs : create_experiment(c[1], c[2])
    \/ \E n \in Names, s \in Subjects : get_user_variant(n, s)
    \/ \E n \in Names, v \in VariantNames : record_success(n, v)
    \/ \E n \in Names, v \in VariantNames, sc \in Scores : record_feedback(n, v, sc)
    \/ \E n \in Names : complete_experiment(n)
    \/ \E n \in Names : get_experiment_results(n)

Spec == Init /\ [][Next]_vars

----------------------------------------------------------------------------
(* Experiment.is_significant on its own: the experiments it is applied to *)

\* a variant after n impressions and k successes, in any order
VariantAfter(vname, n, k) ==
    [Variant(vname, "", vname) EXCEPT
        !.metrics.impressions = n,
        !.metrics.successes = k,
        !.metrics.conversion_rate = IF n > 0 THEN Div(k, n) ELSE Zero]

\* small samples, successes above the impressions included
SmallVariants(vname) ==
    {VariantAfter(vname, n, k) : n \in 0..MaxImpressions,
                                 k \in 0..(MaxImpressions + 1)}

\* samples at the default min_sample_size and one below it, successes above
\* the impressions included
BoundaryVariants(vname) ==
    {VariantAfter(vname, n, k) :
        n \in {DefaultMinSampleSize - 1, DefaultMinSampleSize},
        k \in {0, DefaultMinSampleSize \div 2, DefaultMinSampleSize - 1,
               DefaultMinSampleSize, DefaultMinSampleSize + 1}}

ThirdVariants ==
    {VariantAfter("c", n, 0) : n \in {0, MaxImpressions}}

SmallMinSampleSizes == {1, 3}

VariantLists(first, second) ==
    {<<>>}
    \cup {<<v1>> : v1 \in first}
    \cup {<<v1, v2>> : v1 \in first, v2 \in second}
    \cup {<<v1, v2, v3>> : v1 \in first, v2 \in second, v3 \in ThirdVariants}

SigExperiments ==
    {Experiment("e1", "", vs, "ACTIVE", 0, 0, mss, DefaultConfidenceLevel) :
        vs \in VariantLists(SmallVariants("a"), SmallVariants("b")),
        mss \in SmallMinSampleSizes}
    \cup
    {Experiment("e1", "", vs, "ACTIVE", 0, 0, DefaultMinSampleSize,
                DefaultConfidenceLevel) :
        vs \in VariantLists(BoundaryVariants("a"), BoundaryVariants("b"))}

SigInit ==
    /\ \E exp \in SigExperiments :
          /\ experiments = <<[key |-> "e1", exp |-> exp]>>
          /\ file = SaveExperiments(experiments)
    /\ now = 0
    /\ result = Result("init", "", "ok", "", FALSE)
    /\ returned = NotReturned
    /\ calls = 0
    /\ stores = NoStores
    /\ threads = NoThreads

\* is_significant is applied to the experiment
SigCall ==
    /\ calls = 0
    /\ calls' = 1
    /\ result' = ResultReport("is_significant", "e1",
                              is_significant(Lookup(experiments, "e1")))
    /\ UNCHANGED <<experiments, file, now, returned, stores, threads>>

\* the report of the experiment is asked of the store, as the one call
SigReport == calls = 0 /\ get_experiment_results("e1")

SigNext == SigCall \/ SigReport

SpecSig == SigInit /\ [][SigNext]_vars

----------------------------------------------------------------------------
(* Construction of a store on a storage location that holds a file *)

Without(d, key) == [k \in DOMAIN d \ {key} |-> d[k]]

StoredExperiments(n) ==
    { Experiment(n, "", <<VariantAfter("a", 1, 1), VariantAfter("b", 0, 0)>>,
                 "ACTIVE", 0, 1, DefaultMinSampleSize, DefaultConfidenceLevel),
      Experiment(n, "", <<VariantAfter("a", 2, 0)>>,
                 "PAUSED", 0, 0, DefaultMinSampleSize, DefaultConfidenceLevel),
      Experiment(n, "", <<>>,
                 "COMPLETED", 1, 1, DefaultMinSampleSize, DefaultConfidenceLevel) }

\* entries as _save_experiments writes them, and entries that are damaged
FileEntries(n) ==
    UNION { { [key |-> n, data |-> SaveEntry(exp)],
              [key |-> n, data |-> Without(SaveEntry(exp), "min_sample_size")],
              [key |-> n, data |-> [SaveEntry(exp) EXCEPT !.status = "running"]],
              [key |-> n, data |-> Without(SaveEntry(exp), "variants")] } :
            exp \in StoredExperiments(n) }

StoredFiles ==
    {NoFile, UnparsableFile, FileOf(<<>>)}
    \cup {FileOf(<<x>>) : x \in FileEntries("e1")}
    \cup {FileOf(<<x, y>>) : x \in FileEntries("e1"), y \in FileEntries("e2")}
    \cup {FileOf(<<y, x>>) : x \in FileEntries("e1"), y \in FileEntries("e2")}

LoadInit ==
    /\ experiments = <<>>
    /\ file \in StoredFiles
    /\ now = 0
    /\ result = Result("init", "", "ok", "", FALSE)
    /\ returned = NotReturned
    /\ calls = 0
    /\ stores = NoStores
    /\ threads = NoThreads

\* ABTestingManager(storage_dir) is constructed, once
LoadNext == calls = 0 /\ Reload

SpecLoad == LoadInit /\ [][LoadNext]_vars

----------------------------------------------------------------------------
(* Two threads on one store, or two stores on one file.  There is no lock  *)
(* in the code: a call is the sequence of its reads and writes of the      *)
(* shared dicts and of the file, and the steps of two calls interleave.    *)

MaxConcurrentCalls == 2     \* calls the two threads make in total

ThreadIds == {1, 2}
InstanceIds == {1, 2}

InstanceOf(t) == threads[t].inst
Mem(t) == stores[InstanceOf(t)].mem
WithMem(t, mem) == [stores EXCEPT ![InstanceOf(t)].mem = mem]

\* both threads call the same ABTestingManager object
Shared == threads[1].inst = threads[2].inst

\* a thread that has made no call yet.  pc: where it is in its call;
\* slot, tmp, score, data: local variables of the call (the index of the
\* variant, the value read by a `+=`, the score, the dict _save_experiments
\* builds); ret: what its last call returned or raised
Thread(inst) ==
    [inst |-> inst, pc |-> "idle", op |-> "", name |-> "", slot |-> 0,
     tmp |-> 0, score |-> 0, data |-> <<>>,
     ret |-> [kind |-> "", value |-> ""]]

Entered(th, op, n, slot, tmp, score, pc) ==
    [th EXCEPT !.pc = pc, !.op = op, !.name = n, !.slot = slot, !.tmp = tmp,
               !.score = score, !.data = <<>>,
               !.ret = [kind |-> "", value |-> ""]]

Returns(th, kind, value) ==
    [th EXCEPT !.pc = "idle", !.data = <<>>,
               !.ret = [kind |-> kind, value |-> value]]

\* an exception that is swallowed
Raised_Swallowed(th, error) == Returns(th, "ok", "")

\* the exception leaves the call: nothing catches it on the way out
Raised(th, error) == Returns(th, "raise", error)

\* a `+=` that is one indivisible step
Incremented_Atomic(current, read, by) == current + by

\* x += by stores the value it read earlier, plus by
Incremented(current, read, by) == read + by

\* the store may be called by thread t, and a call is left to make
Ready(t) ==
    /\ threads[t].pc = "idle"
    /\ stores[InstanceOf(t)].up
    /\ calls < MaxConcurrentCalls

\* what the single-caller specifications use stays as it is
NoCaller == UNCHANGED <<experiments, now, result, returned>>

\* ABTestingManager(storage_dir) in a second process: _load_experiments
construct(t) ==
    /\ threads[t].pc = "idle"
    /\ ~stores[InstanceOf(t)].up
    /\ stores' = [stores EXCEPT ![InstanceOf(t)] =
                      [up |-> TRUE, mem |-> LoadExperiments(file)]]
    /\ NoCaller
    /\ UNCHANGED <<file, calls, threads>>

\* create_experiment up to its call of _save_experiments
create_experiment_begin(t, n) ==
    /\ Ready(t)
    /\ ~Shared
    /\ stores' = WithMem(t, Put(Mem(t), n,
                     Experiment(n, "", <<Variant("a", "", "a"), Variant("b", "", "b")>>,
                                "ACTIVE", now, now,
                                DefaultMinSampleSize, DefaultConfidenceLevel)))
    /\ threads' = [threads EXCEPT ![t] =
                       Entered(@, "create_experiment", n, 0, 0, 0, "build")]
    /\ calls' = calls + 1
    /\ NoCaller
    /\ UNCHANGED file

\* get_user_variant up to the read of `self.metrics["impressions"] += 1`
get_user_variant_begin(t, n, s) ==
    /\ Ready(t)
    /\ IF ~(n \in Keys(Mem(t)) /\ Lookup(Mem(t), n).status = "ACTIVE")
       THEN threads' = [threads EXCEPT ![t] =
                Returns(Entered(@, "get_user_variant", n, 0, 0, 0, "idle"),
                        "none", "")]
       ELSE LET experiment == Lookup(Mem(t), n) IN
            IF Len(experiment.variants) = 0
            THEN threads' = [threads EXCEPT ![t] =
                     Raised(Entered(@, "get_user_variant", n, 0, 0, 0, "idle"),
                            "ZeroDivisionError")]
            ELSE LET i == (Digest(n, s) % Len(experiment.variants)) + 1
                 IN threads' = [threads EXCEPT ![t] =
                        Entered(@, "get_user_variant", n, i,
                                experiment.variants[i].metrics.impressions,
                                0, "impression")]
    /\ calls' = calls + 1
    /\ NoCaller
    /\ UNCHANGED <<file, stores>>

\* the write of `self.metrics["impressions"] += 1`, _update_conversion_rate
record_impression_store(t) ==
    /\ threads[t].pc = "impression"
    /\ LET experiment == Lookup(Mem(t), threads[t].name)
           i == threads[t].slot
           variant == experiment.variants[i]
       IN stores' = WithMem(t, Put(Mem(t), threads[t].name,
              [experiment EXCEPT !.variants[i] =
                  Variant_update_conversion_rate(
                      [variant EXCEPT !.metrics.impressions =
                          Incremented(@, threads[t].tmp, 1)])]))
    /\ threads' = [threads EXCEPT ![t].pc = "build"]
    /\ NoCaller
    /\ UNCHANGED <<file, calls>>

\* record_success up to the read of `self.metrics["successes"] += 1`
record_success_begin(t, n, vname) ==
    /\ Ready(t)
    /\ LET i == IF n \in Keys(Mem(t))
                THEN get_variant(Lookup(Mem(t), n), vname) ELSE 0
       IN IF i = 0
          THEN threads' = [threads EXCEPT ![t] =
                   Returns(Entered(@, "record_success", n, 0, 0, 0, "idle"),
                           "none", "")]
          ELSE threads' = [threads EXCEPT ![t] =
                   Entered(@, "record_success", n, i,
                           Lookup(Mem(t), n).variants[i].metrics.successes,
                           0, "success")]
    /\ calls' = calls + 1
    /\ NoCaller
    /\ UNCHANGED <<file, stores>>

\* the write of `self.metrics["successes"] += 1`, _update_conversion_rate,
\* experiment.updated_at = datetime.now()
record_success_store(t) ==
    /\ threads[t].pc = "success"
    /\ LET experiment == Lookup(Mem(t), threads[t].name)
           i == threads[t].slot
           variant == experiment.variants[i]
       IN stores' = WithMem(t, Put(Mem(t), threads[t].name,
              [experiment EXCEPT
                  !.variants[i] =
                      Variant_update_conversion_rate(
                          [variant EXCEPT !.metrics.successes =
                              Incremented(@, threads[t].tmp, 1)]),
                  !.updated_at = now]))
    /\ threads' = [threads EXCEPT ![t].pc = "build"]
    /\ NoCaller
    /\ UNCHANGED <<file, calls>>

\* record_feedback up to the read of `total_feedback_score += score`
record_feedback_begin(t, n, vname, score) ==
    /\ Ready(t)
    /\ LET i == IF n \in Keys(Mem(t))
                THEN get_variant(Lookup(Mem(t), n), vname) ELSE 0
       IN IF i = 0
          THEN threads' = [threads EXCEPT ![t] =
                   Returns(Entered(@, "record_feedback", n, 0, 0, score, "idle"),
                           "none", "")]
          ELSE threads' = [threads EXCEPT ![t] =
                   Entered(@, "record_feedback", n, i,
                           Lookup(Mem(t), n).variants[i].metrics.total_feedback_score,
                           score, "feedback_total")]
    /\ calls' = calls + 1
    /\ NoCaller
    /\ UNCHANGED <<file, stores>>

\* the write of `total_feedback_score += score` and the read of
\* `feedback_count += 1`
record_feedback_total(t) ==
    /\ threads[t].pc = "feedback_total"
    /\ LET experiment == Lookup(Mem(t), threads[t].name)
           i == threads[t].slot
       IN /\ stores' = WithMem(t, Put(Mem(t), threads[t].name,
                 [experiment EXCEPT !.variants[i].metrics.total_feedback_score =
                     Incremented(@, threads[t].tmp, threads[t].score)]))
          /\ threads' = [threads EXCEPT
                            ![t].pc = "feedback_count",
                            ![t].tmp = experiment.variants[i].metrics.feedback_count]
    /\ NoCaller
    /\ UNCHANGED <<file, calls>>

\* the write of `feedback_count += 1`, the average, experiment.updated_at
record_feedback_count(t) ==
    /\ threads[t].pc = "feedback_count"
    /\ LET experiment == Lookup(Mem(t), threads[t].name)
           i == threads[t].slot
           count == Incremented(experiment.variants[i].metrics.feedback_count,
                                threads[t].tmp, 1)
       IN stores' = WithMem(t, Put(Mem(t), threads[t].name,
              [experiment EXCEPT
                  !.variants[i].metrics.feedback_count = count,
                  !.variants[i].metrics.avg_feedback_score =
                      Div(experiment.variants[i].metrics.total_feedback_score,
                          count),
                  !.updated_at = now]))
    /\ threads' = [threads EXCEPT ![t].pc = "build"]
    /\ NoCaller
    /\ UNCHANGED <<file, calls>>

\* complete_experiment up to its call of _save_experiments
complete_experiment_begin(t, n) ==
    /\ Ready(t)
    /\ IF n \notin Keys(Mem(t))
       THEN /\ threads' = [threads EXCEPT ![t] =
                   Returns(Entered(@, "complete_experiment", n, 0, 0, 0, "idle"),
                           "none", "")]
            /\ UNCHANGED stores
       ELSE /\ stores' = WithMem(t, Put(Mem(t), n,
                              Completed(Lookup(Mem(t), n), now)))
            /\ threads' = [threads EXCEPT ![t] =
                   Entered(@, "complete_experiment", n, 0, 0, 0, "build")]
    /\ calls' = calls + 1
    /\ NoCaller
    /\ UNCHANGED file

\* an entry of the dict `data`: strings and numbers are copied when the
\* entry is built, "metrics" is the variant's own dict
BuiltEntry(n, exp) ==
    [SaveEntry(exp) EXCEPT
        !.variants = [i \in DOMAIN exp.variants |->
                         [@[i] EXCEPT !.metrics = Ref(n, i, "metrics")]]]

\* what json.dump writes for an entry: the metrics as they are by then
DumpedEntry(mem, d) ==
    [d EXCEPT !.variants = [i \in DOMAIN d.variants |->
                               [@[i] EXCEPT !.metrics = Deref(mem, @)]]]

\* _save_experiments: the loop that builds `data`
save_experiments_build(t) ==
    /\ threads[t].pc = "build"
    /\ threads' = [threads EXCEPT
                      ![t].pc = "open",
                      ![t].data = [k \in DOMAIN Mem(t) |->
                                      [key |-> Mem(t)[k].key,
                                       data |-> BuiltEntry(Mem(t)[k].key,
                                                           Mem(t)[k].exp)]]]
    /\ NoCaller
    /\ UNCHANGED <<file, calls, stores>>

\* a file that is replaced only when the new content is complete
Truncated_Kept(f) == f

\* open(path, "w") empties the file; json.load fails on it, and on every
\* part of the text that json.dump has written so far
Truncated(f) == UnparsableFile

\* _save_experiments: open(..., "w")
save_experiments_open(t) ==
    /\ threads[t].pc = "open"
    /\ file' = Truncated(file)
    /\ threads' = [threads EXCEPT ![t].pc = "dump"]
    /\ NoCaller
    /\ UNCHANGED <<calls, stores>>

\* open raises (permission denied): the call ends with the OSError
save_experiments_open_fails(t) ==
    /\ threads[t].pc = "open"
    /\ threads' = [threads EXCEPT ![t] = Raised(@, "OSError")]
    /\ NoCaller
    /\ UNCHANGED <<file, calls, stores>>

\* what the call returns once _save_experiments is through
ReturnValue(t) ==
    IF threads[t].op = "get_user_variant"
    THEN [kind |-> "value",
          value |-> Lookup(Mem(t), threads[t].name).variants[threads[t].slot].name]
    ELSE [kind |-> "ok", value |-> ""]

\* _save_experiments: json.dump and close.  The text goes to the start of
\* the file: over the text another writer has put there since this thread
\* opened the file, of which a tail can remain
save_experiments_dump(t) ==
    /\ threads[t].pc = "dump"
    /\ LET written == FileOf([k \in DOMAIN threads[t].data |->
                                 [key |-> threads[t].data[k].key,
                                  data |-> DumpedEntry(Mem(t),
                                               threads[t].data[k].data)]])
       IN file' \in IF file.parses THEN {written, UnparsableFile}
                                   ELSE {written}
    /\ threads' = [threads EXCEPT ![t] =
                       Returns(@, ReturnValue(t).kind, ReturnValue(t).value)]
    /\ NoCaller
    /\ UNCHANGED <<calls, stores>>

\* the write raises (disk full): the file stays cut, the OSError leaves
save_experiments_dump_fails(t) ==
    /\ threads[t].pc = "dump"
    /\ threads' = [threads EXCEPT ![t] = Raised(@, "OSError")]
    /\ NoCaller
    /\ UNCHANGED <<file, calls, stores>>

\* the store both configurations start from, as it is in memory and on file
InitialStore ==
    <<[key |-> "e1",
       exp |-> Experiment("e1", "", <<VariantAfter("a", 1, 0), VariantAfter("b", 0, 0)>>,
                          "ACTIVE", 0, 0,
                          DefaultMinSampleSize, DefaultConfidenceLevel)],
      [key |-> "e2",
       exp |-> Experiment("e2", "", <<VariantAfter("a", 0, 0), VariantAfter("b", 0, 0)>>,
                          "ACTIVE", 0, 0,
                          DefaultMinSampleSize, DefaultConfidenceLevel)]>>

\* thread 1 calls the store that is up; thread 2 calls the same store, or
\* one that its process has yet to construct on the same file
ConcInit ==
    /\ experiments = <<>>
    /\ file = SaveExperiments(InitialStore)
    /\ now = 1
    /\ result = Result("init", "", "ok", "", FALSE)
    /\ returned = NotReturned
    /\ calls = 0
    /\ stores = [i \in InstanceIds |->
                    IF i = 1 THEN [up |-> TRUE, mem |-> InitialStore]
                             ELSE [up |-> FALSE, mem |-> <<>>]]
    /\ \E inst \in InstanceIds :
          threads = [t \in ThreadIds |->
                        IF t = 1 THEN Thread(1) ELSE Thread(inst)]

ConcNext ==
    \E t \in ThreadIds :
        \/ construct(t)
        \/ \E n \in Names : create_experiment_begin(t, n)
        \/ \E n \in Names, s \in Subjects : get_user_variant_begin(t, n, s)
        \/ record_impression_store(t)
        \/ \E n \in Names : record_success_begin(t, n, "a")
        \/ record_success_store(t)
        \/ \E n \in Names : record_feedback_begin(t, n, "a", 5)
        \/ record_feedback_total(t)
        \/ record_feedback_count(t)
        \/ \E n \in Names : complete_experiment_begin(t, n)
        \/ save_experiments_build(t)
        \/ save_experiments_open(t)
        \/ save_experiments_open_fails(t)
        \/ save_experiments_dump(t)
        \/ save_experiments_dump_fails(t)

SpecConc == ConcInit /\ [][ConcNext]_vars

----------------------------------------------------------------------------
(* Properties *)

\* the variants held by the store, each as <<experiment name, index>>
VariantSlots ==
    UNION { {<<n, i>> : i \in DOMAIN Lookup(experiments, n).variants} :
            n \in Keys(experiments) }

MetricsAt(exps, p) == Lookup(exps, p[1]).variants[p[2]].metrics

HasVariantNamed(exp, vname) ==
    \E i \in DOMAIN exp.variants : exp.variants[i].name = vname

\* C1: assignment is deterministic: a call get_user_variant(e, s) that
\* returns a variant name returns the name an earlier call returned for the
\* same (e, s) under the same variant list, whatever calls were made in
\* between (other assignments, successes, feedback, a reload from the file).
C1_DeterministicAssignment ==
    [][\A n \in Names, s \in Subjects :
          ( /\ get_user_variant(n, s)
            /\ result'.kind = "value"
            /\ returned.seen
            /\ returned.experiment = n
            /\ returned.user = s
            /\ returned.variants = get_variant_names(Lookup(experiments, n)) )
          => result'.value = returned.name]_vars

\* a repeated assignment has answered, with a success recorded on the
\* experiment besides the two assignments
C1_Witness ==
    /\ result.op = "get_user_variant"
    /\ result.kind = "value"
    /\ result.again
    /\ result.value = returned.name
    /\ \E p \in VariantSlots :
          p[1] = result.name /\ MetricsAt(experiments, p).successes > 0

\* C2: get_user_variant returns None when the experiment is not in the
\* store or is not ACTIVE, and then changes neither the store nor the file.
C2_AbsentWhenMissingOrInactive ==
    [][\A n \in Names, s \in Subjects :
          ( /\ get_user_variant(n, s)
            /\ \/ n \notin Keys(experiments)
               \/ Lookup(experiments, n).status # "ACTIVE" )
          => /\ result'.kind = "none"
             /\ experiments' = experiments
             /\ file' = file]_vars

\* get_user_variant has returned None for an experiment that is in the
\* store, completed, and holds a variant to assign
C2_Witness ==
    /\ result.op = "get_user_variant"
    /\ result.kind = "none"
    /\ result.name \in Keys(experiments)
    /\ Lookup(experiments, result.name).status = "COMPLETED"
    /\ Len(Lookup(experiments, result.name).variants) > 0

\* C3: for every ACTIVE experiment in the store get_user_variant returns,
\* without error, the name of the variant at index digest mod len(variants)
\* and adds one impression to exactly that variant.
C3_AssignsByDigest ==
    [][\A n \in Names, s \in Subjects :
          ( /\ get_user_variant(n, s)
            /\ n \in Keys(experiments)
            /\ Lookup(experiments, n).status = "ACTIVE" )
          => /\ result'.kind = "value"
             /\ Len(Lookup(experiments, n).variants) > 0
             /\ n \in Keys(experiments')
             /\ LET before == Lookup(experiments, n).variants
                    after == Lookup(experiments', n).variants
                    k == (Digest(n, s) % Len(before)) + 1
                IN /\ result'.value = before[k].name
                   /\ DOMAIN after = DOMAIN before
                   /\ after[k].metrics.impressions
                         = before[k].metrics.impressions + 1
                   /\ \A j \in DOMAIN before \ {k} :
                         after[j].metrics.impressions
                            = before[j].metrics.impressions]_vars

\* C4: create_experiment for a name already in the store raises
\* DuplicateExperimentError and leaves the existing experiment unchanged.
C4_DuplicateRejected ==
    [][\A c \in CreateInputs :
          (create_experiment(c[1], c[2]) /\ c[1] \in Keys(experiments))
          => /\ result'.kind = "raise"
             /\ result'.value = "DuplicateExperimentError"
             /\ experiments' = experiments]_vars

\* C5: persistence is write-through and round-trips: in every state a store
\* constructed on the storage location holds the same experiments as the
\* live store, with identical variant metrics and identical status.
C5_PersistenceRoundTrip ==
    LET fresh == LoadExperiments(file)
    IN /\ Keys(fresh) = Keys(experiments)
       /\ \A n \in Keys(experiments) :
             /\ Lookup(fresh, n).status = Lookup(experiments, n).status
             /\ DOMAIN Lookup(fresh, n).variants
                   = DOMAIN Lookup(experiments, n).variants
             /\ \A i \in DOMAIN Lookup(experiments, n).variants :
                   /\ Lookup(fresh, n).variants[i].name
                         = Lookup(experiments, n).variants[i].name
                   /\ Lookup(fresh, n).variants[i].metrics
                         = Lookup(experiments, n).variants[i].metrics

\* the file holds a completed experiment with an impression and a success
C5_Witness ==
    /\ file.exists
    /\ \E p \in VariantSlots :
          /\ Lookup(experiments, p[1]).status = "COMPLETED"
          /\ MetricsAt(experiments, p).impressions > 0
          /\ MetricsAt(experiments, p).successes > 0
          /\ MetricsAt(LoadExperiments(file), p) = MetricsAt(experiments, p)

\* C6: record_success and record_feedback for an experiment that is not in
\* the store, or for a variant name the experiment does not have, return
\* without error and change no metric, no updated_at and not the file.
C6_SilentNoOpOnMissing ==
    [][\A n \in Names, v \in VariantNames, sc \in Scores :
          ( /\ record_success(n, v) \/ record_feedback(n, v, sc)
            /\ \/ n \notin Keys(experiments)
               \/ ~HasVariantNamed(Lookup(experiments, n), v) )
          => /\ result'.kind = "none"
             /\ experiments' = experiments
             /\ file' = file]_vars

\* a success or a feedback was reported for a variant name that an
\* experiment of the store, which has variants, does not have
C6_Witness ==
    /\ result.op \in {"record_success", "record_feedback"}
    /\ result.kind = "none"
    /\ result.name \in Keys(experiments)
    /\ Len(Lookup(experiments, result.name).variants) > 0

\* C7: every call that changes a metric of a variant of experiment e (an
\* impression of get_user_variant, a success, a feedback score) sets
\* e.updated_at to the time of the call.
C7_UpdatedAtOnMetricChange ==
    [][\A n \in Names :
          ( /\ \/ \E s \in Subjects : get_user_variant(n, s)
               \/ \E v \in VariantNames : record_success(n, v)
               \/ \E v \in VariantNames, sc \in Scores : record_feedback(n, v, sc)
            /\ n \in Keys(experiments)
            /\ Lookup(experiments', n).variants # Lookup(experiments, n).variants )
          => Lookup(experiments', n).updated_at = now]_vars

\* C8: every variant of the store has 0 <= successes <= impressions.
C8_SuccessesWithinImpressions ==
    \A p \in VariantSlots :
        /\ MetricsAt(experiments, p).impressions >= 0
        /\ MetricsAt(experiments, p).successes >= 0
        /\ MetricsAt(experiments, p).successes
              <= MetricsAt(experiments, p).impressions

\* C9: conversion_rate is successes / impressions when impressions > 0 and
\* 0 when impressions = 0, also when a success came before any impression.
C9_ConversionRate ==
    \A p \in VariantSlots :
        LET m == MetricsAt(experiments, p)
        IN IF m.impressions > 0
           THEN m.conversion_rate.num * m.impressions
                   = m.successes * m.conversion_rate.den
           ELSE m.conversion_rate.num = 0

\* one variant has a success and no impression, another variant of the
\* same experiment has an impression and a success
C9_Witness ==
    \E p \in VariantSlots, q \in VariantSlots :
        /\ p[1] = q[1]
        /\ MetricsAt(experiments, p).impressions = 0
        /\ MetricsAt(experiments, p).successes > 0
        /\ MetricsAt(experiments, q).impressions > 0
        /\ MetricsAt(experiments, q).successes > 0
        /\ MetricsAt(experiments, q).conversion_rate.num > 0

RecordingCall ==
    \/ \E n \in Names, s \in Subjects : get_user_variant(n, s)
    \/ \E n \in Names, v \in VariantNames : record_success(n, v)
    \/ \E n \in Names, v \in VariantNames, sc \in Scores : record_feedback(n, v, sc)
    \/ \E n \in Names : complete_experiment(n)

\* C10: metric monotonicity: no recording call (get_user_variant,
\* record_success, record_feedback, complete_experiment) decreases the
\* impressions, successes or feedback_count of any variant.
C10_MetricsMonotone ==
    [][RecordingCall =>
          \A p \in VariantSlots :
              /\ p[1] \in Keys(experiments')
              /\ p[2] \in DOMAIN Lookup(experiments', p[1]).variants
              /\ MetricsAt(experiments', p).impressions
                    >= MetricsAt(experiments, p).impressions
              /\ MetricsAt(experiments', p).successes
                    >= MetricsAt(experiments, p).successes
              /\ MetricsAt(experiments', p).feedback_count
                    >= MetricsAt(experiments, p).feedback_count]_vars

\* a second feedback was recorded on a variant
C10_Witness ==
    /\ result.op = "record_feedback"
    /\ result.kind = "ok"
    /\ \E p \in VariantSlots :
          /\ p[1] = result.name
          /\ MetricsAt(experiments, p).feedback_count >= 2

\* C11: a call of complete_experiment on a name the store holds leaves that
\* experiment COMPLETED, whatever its status was before (so a second call
\* leaves it COMPLETED too), with its variants and their metrics as they
\* were and every other experiment as it was; on a name the store does not
\* hold it returns without error and changes neither the store nor the file.
C11_CompleteKeepsMetrics ==
    [][\A n \in Names : complete_experiment(n) =>
          IF n \in Keys(experiments)
          THEN /\ result'.kind = "ok"
               /\ Keys(experiments') = Keys(experiments)
               /\ Lookup(experiments', n).status = "COMPLETED"
               /\ Lookup(experiments', n).variants =
                      Lookup(experiments, n).variants
               /\ \A m \in Keys(experiments) \ {n} :
                      Lookup(experiments', m) = Lookup(experiments, m)
          ELSE /\ result'.kind = "none"
               /\ experiments' = experiments
               /\ file' = file]_vars

\* an experiment with recorded metrics has been completed a second time
C11_Witness ==
    /\ result.op = "complete_experiment"
    /\ result.kind = "ok"
    /\ result.again
    /\ \E i \in DOMAIN Lookup(experiments, result.name).variants :
          Lookup(experiments, result.name).variants[i].metrics.impressions > 0

\* C12: once an experiment is COMPLETED under a name, no operation of the
\* store makes the experiment under that name ACTIVE or PAUSED again.
C12_CompletedIsTerminal ==
    [][\A n \in Names :
          (n \in Keys(experiments) /\ Lookup(experiments, n).status = "COMPLETED")
          => /\ n \in Keys(experiments')
             /\ Lookup(experiments', n).status \in {"COMPLETED", "ARCHIVED"}]_vars

\* the experiment is_significant was applied to, and what it returned
Judged == result.op = "is_significant"
JudgedExperiment == Lookup(experiments, "e1")
JudgedVerdict == result.report[1]
Impressions(i) == JudgedExperiment.variants[i].metrics.impressions
Successes(i) == JudgedExperiment.variants[i].metrics.successes
Rate(i) == JudgedExperiment.variants[i].metrics.conversion_rate
BothSampled ==
    /\ Len(JudgedExperiment.variants) = 2
    /\ Impressions(1) >= JudgedExperiment.min_sample_size
    /\ Impressions(2) >= JudgedExperiment.min_sample_size
\* one variant converted on every impression, the other on none
ExtremeGap ==
    /\ Successes(1) = Impressions(1)
    /\ Successes(2) = 0

\* C13: for a two-variant experiment, when either variant has fewer
\* impressions than min_sample_size, is_significant returns not significant,
\* no winner and p-value 1.0, whatever the successes are.
C13_SampleSizeGuard ==
    (/\ Judged
     /\ Len(JudgedExperiment.variants) = 2
     /\ \/ Impressions(1) < JudgedExperiment.min_sample_size
        \/ Impressions(2) < JudgedExperiment.min_sample_size)
    => JudgedVerdict = NotSignificant

\* only the second variant is below the minimum, and the gap is extreme
C13_Witness ==
    /\ Judged
    /\ Len(JudgedExperiment.variants) = 2
    /\ Impressions(1) >= JudgedExperiment.min_sample_size
    /\ Impressions(2) < JudgedExperiment.min_sample_size
    /\ Impressions(2) > 0
    /\ ExtremeGap
    /\ JudgedVerdict = NotSignificant

\* C14 as stated: with min_sample_size 100, two variants at 99 impressions
\* each are not significant whatever the gap, and as soon as either variant
\* is at 100 impressions the test is computed, so that an extreme gap is
\* reported as significant.
C14_EitherAtHundred ==
    (/\ Judged
     /\ Len(JudgedExperiment.variants) = 2
     /\ JudgedExperiment.min_sample_size = DefaultMinSampleSize)
    => /\ (Impressions(1) = 99 /\ Impressions(2) = 99)
             => JudgedVerdict = NotSignificant
       /\ ((Impressions(1) = 100 \/ Impressions(2) = 100) /\ ExtremeGap)
             => (JudgedVerdict.kind = "value" /\ JudgedVerdict.is_significant)

\* C14 amended: with min_sample_size 100, the verdict is forced to not
\* significant while either variant is at 99 impressions, whatever the gap;
\* with both variants at 100 impressions the test is computed: different
\* conversion rates give a p-value other than 1.0, and an extreme gap is
\* reported as significant.
C14_BothAtHundred ==
    (/\ Judged
     /\ Len(JudgedExperiment.variants) = 2
     /\ JudgedExperiment.min_sample_size = DefaultMinSampleSize)
    => /\ (Impressions(1) = 99 \/ Impressions(2) = 99)
             => JudgedVerdict = NotSignificant
       /\ (/\ Impressions(1) = 100
           /\ Impressions(2) = 100
           /\ Successes(1) + Successes(2) \in 1..199
           /\ Rate(1) # Rate(2))
             => (JudgedVerdict.kind = "value"
                 /\ JudgedVerdict.p_value # PValueOne)
       /\ (Impressions(1) = 100 /\ Impressions(2) = 100 /\ ExtremeGap)
             => (JudgedVerdict.kind = "value" /\ JudgedVerdict.is_significant)

\* both variants at 100 impressions, 100 successes against none: significant
C14_Witness ==
    /\ Judged
    /\ JudgedExperiment.min_sample_size = DefaultMinSampleSize
    /\ Len(JudgedExperiment.variants) = 2
    /\ Impressions(1) = 100
    /\ Impressions(2) = 100
    /\ ExtremeGap
    /\ JudgedVerdict.is_significant

\* C15: an experiment whose variant list does not have exactly two entries
\* (none, one, three) is not significant, with no winner and p-value 1.0,
\* whatever the metrics are.
C15_VariantCountGuard ==
    (Judged /\ Len(JudgedExperiment.variants) # 2)
    => JudgedVerdict = NotSignificant

\* three variants, the first two sampled enough and with an extreme gap
C15_Witness ==
    /\ Judged
    /\ Len(JudgedExperiment.variants) = 3
    /\ Impressions(1) >= JudgedExperiment.min_sample_size
    /\ Impressions(2) >= JudgedExperiment.min_sample_size
    /\ ExtremeGap
    /\ JudgedVerdict = NotSignificant

\* C16: when both variants have at least min_sample_size impressions and
\* the pooled proportion is 0 or 1, is_significant returns not significant
\* with p-value 1.0 and raises nothing.
C16_DegeneratePooled ==
    (/\ Judged
     /\ BothSampled
     /\ Impressions(1) + Impressions(2) > 0
     /\ \/ Successes(1) + Successes(2) = 0
        \/ Successes(1) + Successes(2) = Impressions(1) + Impressions(2))
    => JudgedVerdict = NotSignificant

\* both variants sampled enough and every impression of both a success
C16_Witness ==
    /\ Judged
    /\ BothSampled
    /\ Impressions(1) > 0
    /\ Successes(1) = Impressions(1)
    /\ Successes(2) = Impressions(2)
    /\ JudgedVerdict = NotSignificant

\* C17: in a verdict of is_significant a winner is present exactly when the
\* verdict is significant, and it is then the name of the variant with the
\* strictly higher conversion_rate.
C17_WinnerIffSignificant ==
    (Judged /\ JudgedVerdict.kind = "value")
    => /\ JudgedVerdict.winner.present <=> JudgedVerdict.is_significant
       /\ JudgedVerdict.winner.present =>
             \E i, j \in DOMAIN JudgedExperiment.variants :
                 /\ i # j
                 /\ JudgedVerdict.winner.name = JudgedExperiment.variants[i].name
                 /\ FracLess(Rate(j), Rate(i))

\* a significant verdict whose winner is the second variant
C17_Witness ==
    /\ Judged
    /\ JudgedVerdict.kind = "value"
    /\ JudgedVerdict.is_significant
    /\ JudgedVerdict.winner = WinnerNamed(JudgedExperiment.variants[2].name)

\* C18: get_experiment_results on a name the store does not hold returns
\* the empty report, raises nothing, and changes neither the store nor the
\* file.
C18_EmptyReportWhenAbsent ==
    [][\A n \in Names :
          (get_experiment_results(n) /\ n \notin Keys(experiments))
          => /\ result'.kind = "none"
             /\ result'.report = <<>>
             /\ experiments' = experiments
             /\ file' = file]_vars

\* the report of a missing experiment was asked of a store that holds another
C18_Witness ==
    /\ result.op = "get_experiment_results"
    /\ result.kind = "none"
    /\ result.name \notin Keys(experiments)
    /\ experiments # <<>>
    /\ file.exists

\* a file json.load makes no dict of, or with an entry that cannot be loaded
Malformed(f) ==
    /\ f.exists
    /\ \/ ~f.parses
       \/ \E k \in DOMAIN f.data : ~EntryLoads(f.data[k].data)

\* C19: constructing a store does not fail; on a missing file and on a
\* malformed file (unparsable, or with any entry that fails validation) the
\* store that was constructed holds no experiment at all.
C19_LoadFallback ==
    result.op = "reload"
    => /\ result.kind = "ok"
       /\ (~file.exists \/ Malformed(file)) => experiments = <<>>

\* C20: no experiment of the store holds two variants with the same name.
C20_VariantNamesUnique ==
    \A k \in DOMAIN experiments :
        \A i, j \in DOMAIN experiments[k].exp.variants :
            experiments[k].exp.variants[i].name
              = experiments[k].exp.variants[j].name
            => i = j

SlotsOf(exps) ==
    UNION { {<<n, i>> : i \in DOMAIN Lookup(exps, n).variants} :
            n \in Keys(exps) }

C24_WritesNotBlockedByStatus ==
    [][\A n \in Names :
          (n \in Keys(experiments) /\ Lookup(experiments, n).status # "ACTIVE")
          => /\ \A v \in VariantNames :
                   (record_success(n, v) /\ HasVariantNamed(Lookup(experiments, n), v))
                   => LET i == get_variant(Lookup(experiments, n), v)
                      IN /\ MetricsAt(experiments', <<n, i>>).successes
                              = MetricsAt(experiments, <<n, i>>).successes + 1
                         /\ Lookup(experiments', n).updated_at = now
                         /\ LoadExperiments(file') = experiments'
             /\ \A v \in VariantNames, sc \in Scores :
                   (record_feedback(n, v, sc) /\ HasVariantNamed(Lookup(experiments, n), v))
                   => LET i == get_variant(Lookup(experiments, n), v)
                      IN /\ MetricsAt(experiments', <<n, i>>).feedback_count
                              = MetricsAt(experiments, <<n, i>>).feedback_count + 1
                         /\ Lookup(experiments', n).updated_at = now
                         /\ LoadExperiments(file') = experiments'
             /\ \A u \in Subjects :
                   get_user_variant(n, u)
                   => (experiments' = experiments /\ file' = file)]_vars

\* a success was recorded and persisted on a COMPLETED experiment, after
\* the clock had advanced since its creation
C24_Witness ==
    /\ result.op = "record_success"
    /\ result.kind = "ok"
    /\ Lookup(experiments, result.name).status = "COMPLETED"
    /\ Lookup(experiments, result.name).updated_at = 1
    /\ Lookup(experiments, result.name).created_at = 0
    /\ \E p \in SlotsOf(experiments) :
          p[1] = result.name /\ MetricsAt(experiments, p).successes = 1
    /\ LoadExperiments(file) = experiments

\* C25: the variant metrics read through a report that get_experiment_results
\* has returned are, after a recording call made next on the store, the
\* values they were when the report was returned.
C25_ReportIsSnapshot ==
    [][( /\ result.op = "get_experiment_results"
         /\ result.kind = "report"
         /\ RecordingCall )
       => \A i \in DOMAIN result.report[1].variants :
             Deref(experiments', result.report[1].variants[i].metrics)
               = Deref(experiments, result.report[1].variants[i].metrics)]_vars

\* C28: get_experiment_results returns a report and raises nothing for an
\* experiment as create_experiment makes it (min_sample_size 100), whatever
\* impressions and successes were recorded on its variants, successes above
\* the impressions included.
C28_ReportNeverRaises ==
    ( /\ result.op = "get_experiment_results"
      /\ JudgedExperiment.min_sample_size = DefaultMinSampleSize )
    => result.kind = "report"

\* C29: in every state reached from the empty store without a file, every
\* experiment of the store is ACTIVE or COMPLETED.
C29_OnlyActiveOrCompleted ==
    \A k \in DOMAIN experiments :
        experiments[k].exp.status \in {"ACTIVE", "COMPLETED"}

\* a store constructed on the file holds an ACTIVE and a COMPLETED experiment
C29_Witness ==
    /\ result.op = "reload"
    /\ \E k \in DOMAIN experiments : experiments[k].exp.status = "ACTIVE"
    /\ \E k \in DOMAIN experiments : experiments[k].exp.status = "COMPLETED"

\* the part of an experiment that no recording call may change
Fixed(exp) ==
    [name |-> exp.name, description |-> exp.description,
     created_at |-> exp.created_at,
     min_sample_size |-> exp.min_sample_size,
     confidence_level |-> exp.confidence_level,
     variants |-> [i \in DOMAIN exp.variants |->
                     [name |-> exp.variants[i].name,
                      description |-> exp.variants[i].description,
                      config |-> exp.variants[i].config]]]

\* the variants of experiment n whose metrics the step changes
ChangedVariants(n) ==
    {i \in DOMAIN Lookup(experiments, n).variants :
        MetricsAt(experiments', <<n, i>>) # MetricsAt(experiments, <<n, i>>)}

\* C30: get_user_variant, record_success, record_feedback and
\* complete_experiment called for experiment e leave every other experiment
\* as it was and keep the name, description, created_at, min_sample_size,
\* confidence_level and variant list of e; record_success and record_feedback
\* change the metrics of no variant but the named one, get_user_variant of at
\* most one variant, complete_experiment of none; get_experiment_results
\* changes neither the store nor the file.
C30_Frame ==
    [][\A e \in Names :
          /\ ( \/ \E u \in Subjects : get_user_variant(e, u)
               \/ \E v \in VariantNames : record_success(e, v)
               \/ \E v \in VariantNames, sc \in Scores : record_feedback(e, v, sc)
               \/ complete_experiment(e) )
             => /\ Keys(experiments') = Keys(experiments)
                /\ \A m \in Keys(experiments) \ {e} :
                       Lookup(experiments', m) = Lookup(experiments, m)
                /\ e \in Keys(experiments)
                       => Fixed(Lookup(experiments', e)) = Fixed(Lookup(experiments, e))
          /\ \A v \in VariantNames :
                ( /\ e \in Keys(experiments)
                  /\ \/ record_success(e, v)
                     \/ \E sc \in Scores : record_feedback(e, v, sc) )
                => \A i \in ChangedVariants(e) :
                       /\ Lookup(experiments, e).variants[i].name = v
                       /\ Cardinality(ChangedVariants(e)) = 1
          /\ (e \in Keys(experiments) /\ \E u \in Subjects : get_user_variant(e, u))
                => Cardinality(ChangedVariants(e)) <= 1
          /\ (e \in Keys(experiments) /\ complete_experiment(e))
                => ChangedVariants(e) = {}
          /\ get_experiment_results(e)
                => (experiments' = experiments /\ file' = file)]_vars

\* a success was recorded on one experiment while the store holds another
\* one that has an impression and an earlier timestamp
C30_Witness ==
    /\ result.op = "record_success"
    /\ result.kind = "ok"
    /\ \E m \in Keys(experiments) \ {result.name} :
          /\ Lookup(experiments, m).updated_at
                < Lookup(experiments, result.name).updated_at
          /\ \E i \in DOMAIN Lookup(experiments, m).variants :
                MetricsAt(experiments, <<m, i>>).impressions > 0

\* thread t is back from a call that went through to its end or raised
Back(t) == threads[t].pc = "idle" /\ threads[t].ret.kind \in {"ok", "value", "raise"}

\* what a store constructed now would find under name n, if anything
Persisted(n) == Lookup(LoadExperiments(file), n)

\* C22: when each thread has completed one mutating call and the two calls
\* were for different experiment names, the store each thread called holds
\* its update and the file holds, for both names, the experiment as the
\* store that was called for it holds it.
C22_IndependentNames ==
    ( /\ calls = 2
      /\ \A t \in ThreadIds :
            threads[t].pc = "idle" /\ threads[t].ret.kind \in {"ok", "value"}
      /\ threads[1].name # threads[2].name )
    => /\ file.parses
       /\ \A t \in ThreadIds :
             /\ Lookup(Mem(t), threads[t].name)
                   # Lookup(InitialStore, threads[t].name)
             /\ threads[t].name \in Keys(LoadExperiments(file))
             /\ Persisted(threads[t].name) = Lookup(Mem(t), threads[t].name)

\* C23: when open or json.dump fails inside _save_experiments, the call
\* ends with the OSError, the stores are left as the call has changed them
\* and the file is left as it was; if the call is the only one made so far,
\* the store that was called differs from what the file gives back, and a
\* get_user_variant has counted its impression without returning a name.
C23_PersistFailurePropagates ==
    [][\A t \in ThreadIds :
          (save_experiments_open_fails(t) \/ save_experiments_dump_fails(t))
          => /\ threads'[t].pc = "idle"
             /\ threads'[t].ret = [kind |-> "raise", value |-> "OSError"]
             /\ stores' = stores
             /\ file' = file
             /\ calls = 1
                  => /\ LoadExperiments(file') # stores'[InstanceOf(t)].mem
                     /\ threads[t].op = "get_user_variant"
                          => Lookup(stores'[InstanceOf(t)].mem, threads[t].name)
                               .variants[threads[t].slot].metrics.impressions
                             = threads[t].tmp + 1]_vars

\* a get_user_variant has raised the OSError: the store has the impression,
\* the file is intact and does not have it
C23_Witness ==
    \E t \in ThreadIds :
        /\ threads[t].pc = "idle"
        /\ threads[t].op = "get_user_variant"
        /\ threads[t].ret = [kind |-> "raise", value |-> "OSError"]
        /\ calls = 1
        /\ Lookup(Mem(t), threads[t].name)
              .variants[threads[t].slot].metrics.impressions = threads[t].tmp + 1
        /\ file.parses
        /\ Persisted(threads[t].name)
              .variants[threads[t].slot].metrics.impressions = threads[t].tmp

\* the two threads call one store and each is back from one call of `op` on
\* the same variant
SameVariant(op) ==
    /\ Shared
    /\ calls = 2
    /\ \A t \in ThreadIds : Back(t) /\ threads[t].op = op
    /\ threads[1].name = threads[2].name
    /\ threads[1].slot = threads[2].slot

Larger(a, b) == IF a < b THEN b ELSE a

CounterOf(key) ==
    Lookup(Mem(1), threads[1].name).variants[threads[1].slot].metrics[key]

\* C26: after two unserialized calls on the same variant the counter is one
\* more than the larger of the two values the calls read: two more than
\* before if the second call read after the first wrote, one more if both
\* read the same value.
C26_LastWriteWins ==
    /\ SameVariant("get_user_variant")
          => CounterOf("impressions")
               = Larger(threads[1].tmp, threads[2].tmp) + 1
    /\ SameVariant("record_success")
          => CounterOf("successes")
               = Larger(threads[1].tmp, threads[2].tmp) + 1

\* both record_success calls are back and the variant has one success
C26_Witness ==
    /\ SameVariant("record_success")
    /\ \A t \in ThreadIds : threads[t].ret.kind = "ok"
    /\ threads[1].tmp = 0
    /\ threads[2].tmp = 0
    /\ CounterOf("successes") = 1

\* C27: once _save_experiments has opened the file, a store constructed on
\* it finds no experiment; a store constructed holds what the file gives at
\* that moment and nothing else; and a completed write leaves in the file
\* the experiments of the writing store and no other.
C27_RewriteInPlace ==
    [][\A t \in ThreadIds :
          /\ save_experiments_open(t)
                => (file'.exists /\ LoadExperiments(file') = <<>>)
          /\ construct(t)
                => stores'[InstanceOf(t)].mem = LoadExperiments(file)
          /\ (save_experiments_dump(t) /\ file'.parses)
                => Keys(LoadExperiments(file')) = Keys(Mem(t))]_vars

\* the first store has counted and saved an impression on e1; the second
\* store, constructed meanwhile, has created e2; the file has lost e1
C27_Witness ==
    /\ ~Shared
    /\ stores[2].up
    /\ \A t \in ThreadIds : threads[t].pc = "idle"
    /\ threads[1].op = "get_user_variant"
    /\ threads[1].name = "e1"
    /\ threads[1].ret.kind = "value"
    /\ threads[2].op = "create_experiment"
    /\ threads[2].ret.kind = "ok"
    /\ Keys(stores[1].mem) = {"e1", "e2"}
    /\ file.parses
    /\ Keys(LoadExperiments(file)) = {"e2"}

============================================================================
